---- MODULE Spec2Model ----
(***************************************************************************)
(* GuidanceNet (modulus/models/diffusion/guidance.py): construction of the *)
(* mapping stack, the encoder stage table and the pooling head, and the    *)
(* forward evaluation over the instance that construction leaves behind.   *)
(*                                                                         *)
(* Probabilities are counted in tenths (label_dropout = 10 is 1.0).        *)
(* An optional value is a sequence of length 0 (Python None) or 1.         *)
(* A torch.nn.ModuleDict is a sequence of [key, module] entries in         *)
(* insertion order.                                                        *)
(***************************************************************************)
EXTENDS Integers, Sequences, FiniteSets, TLC

VARIABLES args, self, init, call
vars == <<args, self, init, call>>

(* ------------------------------ bounds -------------------------------- *)
MaxRes == 3
MaxLevels == 3
MaxMult == 2
MaxBlocks == 1
MaxModelChannels == 2
BatchSize == 2

(* ------------------------- optional values ---------------------------- *)
None == <<>>
Some(v) == <<v>>
IsNone(o) == Len(o) = 0
Get(o) == o[1]

(* --------------------- constructor arguments -------------------------- *)
Config(res, cin, cout, ldim, adim, mc, cm, nb, attn, ldrop, pool) ==
    [img_resolution |-> res, in_channels |-> cin, out_channels |-> cout,
     label_dim |-> ldim, augment_dim |-> adim, model_channels |-> mc,
     channel_mult |-> cm, channel_mult_emb |-> 4, num_blocks |-> nb,
     attn_resolutions |-> attn, dropout |-> 1, label_dropout |-> ldrop,
     pool |-> pool]

ChannelMults == UNION {[1..n -> 1..MaxMult] : n \in 1..MaxLevels}
Pools == {"spatial", "attention"}
LabelDropouts == {0, 5, 10}

\* the documented example: GuidanceNet(img_resolution=16, in_channels=2,
\* out_channels=2), every other argument at its default
DocExample ==
    Config(16, 2, 2, 0, 0, 192, <<1, 2, 3, 4>>, 3, {32, 16, 8}, 0, "spatial")

\* configurations that vary the encoder
EncConfigs ==
    {Config(res, cin, 2, 0, 0, mc, cm, nb, {2}, 0, pool) :
        res \in 1..MaxRes, cin \in {2, 3}, mc \in 1..MaxModelChannels,
        cm \in ChannelMults, nb \in 0..MaxBlocks, pool \in Pools}

\* configurations that vary the mapping stack
MapConfigs ==
    {Config(2, 2, 2, ldim, adim, 2, <<1, 2>>, 1, {}, ldrop, pool) :
        ldim \in 0..1, adim \in 0..1, ldrop \in LabelDropouts, pool \in Pools}

Configs == EncConfigs \cup MapConfigs \cup {DocExample}

(* ----------------------------- layers --------------------------------- *)
Linear(in_features, out_features, bias) ==
    [type |-> "Linear", in_channels |-> in_features,
     out_channels |-> out_features, down |-> FALSE, attention |-> FALSE,
     bias |-> bias]

Conv2d(in_channels, out_channels) ==
    [type |-> "Conv2d", in_channels |-> in_channels,
     out_channels |-> out_channels, down |-> FALSE, attention |-> FALSE,
     bias |-> TRUE]

UNetBlock(in_channels, out_channels, down, attention) ==
    [type |-> "UNetBlock", in_channels |-> in_channels,
     out_channels |-> out_channels, down |-> down, attention |-> attention,
     bias |-> TRUE]

(* ---------------------------- ModuleDict ------------------------------ *)
HasKey(d, k) == \E i \in 1..Len(d) : d[i].key = k

Lookup(d, k) == d[CHOOSE i \in 1..Len(d) : d[i].key = k].module

\* d[k] = m: an existing key keeps its position and takes the new module,
\* a new key is appended
DictSet(d, k, m) ==
    IF HasKey(d, k)
    THEN [i \in 1..Len(d) |->
             IF d[i].key = k THEN [key |-> k, module |-> m] ELSE d[i]]
    ELSE Append(d, [key |-> k, module |-> m])

Keys(d) == [i \in 1..Len(d) |-> d[i].key]

(* ------------------------------ encoder ------------------------------- *)
\* img_resolution >> level
RECURSIVE Shr(_, _)
Shr(n, k) == IF k = 0 THEN n ELSE Shr(n \div 2, k - 1)

\* f"{res}x{res}_conv", f"{res}x{res}_down", f"{res}x{res}_block{idx}"
ResKey(res) == ToString(res) \o "x" \o ToString(res)
ConvKey(res) == ResKey(res) \o "_conv"
DownKey(res) == ResKey(res) \o "_down"
BlockKey(res, idx) == ResKey(res) \o "_block" \o ToString(idx)

\* for idx in range(num_blocks): ...
RECURSIVE EncBlocks(_, _, _, _, _, _)
EncBlocks(a, enc, cout, res, mult, idx) ==
    IF idx >= a.num_blocks
    THEN [enc |-> enc, cout |-> cout]
    ELSE LET cin == cout
             cout2 == a.model_channels * mult
         IN  EncBlocks(a,
                 DictSet(enc, BlockKey(res, idx),
                     UNetBlock(cin, cout2, FALSE,
                               res \in a.attn_resolutions)),
                 cout2, res, mult, idx + 1)

\* the first stage of a level: the convolution at level 0, the
\* downsampling block at every later level
EncEntry(a, enc, cout, res, mult, level) ==
    IF level = 0
    THEN [enc |-> DictSet(enc, ConvKey(res),
                      Conv2d(cout, a.model_channels * mult)),
          cout |-> a.model_channels * mult]
    ELSE [enc |-> DictSet(enc, DownKey(res),
                      UNetBlock(cout, cout, TRUE, FALSE)),
          cout |-> cout]

\* for level, mult in enumerate(channel_mult): ...   (level counts from 0)
RECURSIVE EncLevels(_, _, _, _)
EncLevels(a, enc, cout, level) ==
    IF level >= Len(a.channel_mult)
    THEN enc
    ELSE LET mult == a.channel_mult[level + 1]
             res == Shr(a.img_resolution, level)
             entry == EncEntry(a, enc, cout, res, mult, level)
             blocks == EncBlocks(a, entry.enc, entry.cout, res, mult, 0)
         IN  EncLevels(a, blocks.enc, blocks.cout, level + 1)

BuildEnc(a) == EncLevels(a, <<>>, a.in_channels, 0)

(* ---------------------------- construction ---------------------------- *)
\* the instance before __init__ has assigned anything
Blank ==
    [attrs |-> {}, training |-> FALSE, label_dropout |-> 0, pool |-> "",
     map_augment |-> None, map_label |-> None, enc |-> <<>>, out |-> <<>>]

\* lines 127-173: super().__init__, label_dropout, pool, the mapping stack
InitMapping(a) ==
    LET emb_channels == a.model_channels * a.channel_mult_emb
    IN  [Blank EXCEPT
            !.attrs = {"training", "label_dropout", "pool", "map_noise",
                       "map_augment", "map_layer0", "map_layer1",
                       "map_label"},
            !.training = TRUE,
            !.label_dropout = a.label_dropout,
            !.pool = a.pool,
            !.map_augment =
                IF a.augment_dim # 0
                THEN Some(Linear(a.augment_dim, a.model_channels, FALSE))
                ELSE None,
            !.map_label =
                IF a.label_dim # 0
                THEN Some(Linear(a.label_dim, emb_channels, FALSE))
                ELSE None]

\* lines 176-199: the encoder stage table
InitEncoder(a, s) ==
    [s EXCEPT !.attrs = @ \cup {"enc"}, !.enc = BuildEnc(a)]

\* lines 202-208: the pooling head.  self._feature_size and
\* self.out_channels are read but assigned nowhere, and the group_norm
\* entry is a one-element tuple, which a ModuleDict rejects.
InitPooling(a, s) ==
    IF a.pool = "spatial"
    THEN LET s1 == [s EXCEPT !.attrs = @ \cup {"out"}, !.out = <<>>]
         IN  IF "_feature_size" \notin s1.attrs
             THEN [self |-> s1, raised |-> "AttributeError", line |-> 204]
             ELSE [self |-> [s1 EXCEPT !.out = DictSet(@, "linear_in",
                                          Linear(0, 2048, TRUE))],
                   raised |-> "TypeError", line |-> 205]
    ELSE [self |-> s, raised |-> "NotImplementedError", line |-> 208]

\* __init__ with the pooling mode validated before anything is built
GuidanceNet_init_PoolFirst(a) ==
    IF a.pool = "spatial"
    THEN InitPooling(a, InitEncoder(a, InitMapping(a)))
    ELSE [self |-> [Blank EXCEPT !.attrs = {"training"}, !.training = TRUE],
          raised |-> "NotImplementedError", line |-> 208]

\* GuidanceNet.__init__
GuidanceNet_init(a) == InitPooling(a, InitEncoder(a, InitMapping(a)))

(* ------------------------------ forward ------------------------------- *)
\* Integer stand-ins for the layer library and for torch: a scalar per
\* sample in place of a vector, fixed parameters.  map_augment and
\* map_label are built with bias=False, so they send 0 to 0.
map_noise(n) == 2 * n + 1
map_augment(v) == 7 * v
map_layer0(v) == 2 * v + 1
map_layer1(v) == 3 * v - 4
map_label(v) == 5 * v
\* x * sigmoid(x) rounded to the nearest integer
silu(v) == IF v > 0 THEN v ELSE 0

\* torch.rand draws from [0, 1): in tenths, below 10
RandValues == {0, 5, 9}

\* the augmentation step keyed on the argument alone
AugmentStepApplies_ByArgument(s, augment_labels) == ~IsNone(augment_labels)

\* line 213: if self.map_augment is not None and augment_labels is not None
AugmentStepApplies(s, augment_labels) ==
    ~IsNone(s.map_augment) /\ ~IsNone(augment_labels)

\* the label step keyed on the argument alone
LabelStepApplies_ByArgument(s, class_labels) == ~IsNone(class_labels)

\* the label step skipped when no class labels are supplied
LabelStepApplies_IfSupplied(s, class_labels) ==
    ~IsNone(s.map_label) /\ ~IsNone(class_labels)

\* line 217: if self.map_label is not None
LabelStepApplies(s, class_labels) == ~IsNone(s.map_label)

\* label dropout applied in every mode
LabelDropoutActive_AnyMode(s) == s.label_dropout # 0

\* line 219: if self.training and self.label_dropout
LabelDropoutActive(s) == s.training /\ s.label_dropout # 0

\* the comparison of line 221 inverted
LabelKeep_Inverted(r, p) == IF r < p THEN 1 ELSE 0

\* line 221: torch.rand(...) >= self.label_dropout, as a 0/1 factor
LabelKeep(r, p) == IF r >= p THEN 1 ELSE 0

\* lines 212-224 up to the label step: the embedding of each sample
EmbBeforeLabel(s, noise_labels, augment_labels) ==
    [i \in 1..Len(noise_labels) |->
        LET e0 == map_noise(noise_labels[i])
            e1 == IF AugmentStepApplies(s, augment_labels)
                  THEN e0 + map_augment(Get(augment_labels)[i])
                  ELSE e0
        IN  map_layer1(silu(map_layer0(e1)))]

\* lines 227-230: for block in self.enc.values(): x = block(x[, emb]).
\* A stage fed a channel count other than its in_channels is a shape
\* mismatch raised by the tensor framework.
RECURSIVE RunEnc(_, _, _, _)
RunEnc(enc, i, channels, ran) ==
    IF i > Len(enc)
    THEN [ran |-> ran, channels |-> channels, raised |-> ""]
    ELSE IF enc[i].module.in_channels # channels
         THEN [ran |-> ran, channels |-> channels, raised |-> "RuntimeError"]
         ELSE RunEnc(enc, i + 1, enc[i].module.out_channels,
                     Append(ran, enc[i].key))

\* lines 232-240: the pooling head and the returned shape
Pooling(s, batch) ==
    IF "out" \notin s.attrs
    THEN [raised |-> "AttributeError", line |-> 234, out_shape |-> <<>>]
    ELSE IF ~HasKey(s.out, "linear_in")
    THEN [raised |-> "KeyError", line |-> 234, out_shape |-> <<>>]
    ELSE IF ~HasKey(s.out, "group_norm")
    THEN [raised |-> "KeyError", line |-> 235, out_shape |-> <<>>]
    ELSE IF "dropout" \notin s.attrs
    THEN [raised |-> "AttributeError", line |-> 237, out_shape |-> <<>>]
    ELSE IF ~HasKey(s.out, "linear_out")
    THEN [raised |-> "KeyError", line |-> 238, out_shape |-> <<>>]
    ELSE [raised |-> "", line |-> 240,
          out_shape |-> <<batch, Lookup(s.out, "linear_out").out_channels>>]

NoCall ==
    [made |-> FALSE, training |-> FALSE, x_channels |-> 0,
     noise_labels |-> <<>>, class_labels |-> None, augment_labels |-> None,
     rnd |-> <<>>, emb |-> <<>>, augment_step |-> "", label_step |-> "",
     mask |-> None, tmp |-> None, label_emb |-> None,
     activated |-> FALSE, ran |-> <<>>, raised |-> "", line |-> 0,
     out_shape |-> <<>>]

\* GuidanceNet.forward(x, noise_labels, class_labels, augment_labels);
\* rnd holds what torch.rand returns if it is called
forward(s, x_channels, noise_labels, class_labels, augment_labels, rnd) ==
    LET B == Len(noise_labels)
        base == EmbBeforeLabel(s, noise_labels, augment_labels)
        labelled == LabelStepApplies(s, class_labels)
        dropping == labelled /\ LabelDropoutActive(s)
        mask == IF dropping
                THEN Some([i \in 1..B |-> LabelKeep(rnd[i], s.label_dropout)])
                ELSE None
        in0 == [NoCall EXCEPT
                   !.made = TRUE, !.training = s.training,
                   !.x_channels = x_channels,
                   !.augment_step =
                       IF AugmentStepApplies(s, augment_labels)
                       THEN "applied" ELSE "skipped",
                   !.noise_labels = noise_labels,
                   !.class_labels = class_labels,
                   !.augment_labels = augment_labels,
                   !.rnd = IF dropping THEN rnd ELSE <<>>,
                   !.mask = mask]
    IN  IF labelled /\ IsNone(class_labels)
        THEN \* tmp is None: tmp.dtype (line 222) or self.map_label(None)
             \* (line 223) raises
             [in0 EXCEPT !.emb = base, !.label_step = "raised",
                         !.raised = "NoneInput",
                         !.line = IF dropping THEN 222 ELSE 223]
        ELSE LET tmp == IF ~labelled THEN None
                        ELSE IF dropping
                        THEN Some([i \in 1..B |->
                                 Get(class_labels)[i] * Get(mask)[i]])
                        ELSE class_labels
                 label_emb == IF labelled
                              THEN Some([i \in 1..B |->
                                       map_label(Get(tmp)[i])])
                              ELSE None
                 emb == [i \in 1..B |->
                            silu(IF labelled
                                 THEN base[i] + Get(label_emb)[i]
                                 ELSE base[i])]
                 e == RunEnc(s.enc, 1, x_channels, <<>>)
                 p == Pooling(s, B)
                 in1 == [in0 EXCEPT
                            !.emb = emb, !.tmp = tmp,
                            !.label_emb = label_emb, !.activated = TRUE,
                            !.label_step = IF labelled THEN "applied"
                                           ELSE "skipped",
                            !.ran = e.ran]
             IN  IF e.raised # ""
                 THEN [in1 EXCEPT !.raised = e.raised, !.line = 229]
                 ELSE [in1 EXCEPT !.raised = p.raised, !.line = p.line,
                                  !.out_shape = p.out_shape]

(* ----------------------------- inputs --------------------------------- *)
Samples == 1..BatchSize
NoiseInputs == {[i \in Samples |-> i]}
LabelInputs ==
    {None, Some([i \in Samples |-> 0]), Some([i \in Samples |-> 1]),
     Some([i \in Samples |-> i % 2])}
AugmentInputs == {None, Some([i \in Samples |-> 0]), Some([i \in Samples |-> i])}
\* the image's channel count: the configured one, or 3
ImageChannels(a) == {a.in_channels, 3}
RndInputs == [Samples -> RandValues]

Init ==
    /\ args = None
    /\ self = Blank
    /\ init = [pc |-> "new", raised |-> "", line |-> 0]
    /\ call = NoCall

Construct ==
    /\ init.pc = "new"
    /\ \E a \in Configs :
          LET r == GuidanceNet_init(a)
          IN  /\ args' = Some(a)
              /\ self' = r.self
              /\ init' = [pc |-> IF r.raised = "" THEN "returned"
                                 ELSE "raised",
                          raised |-> r.raised, line |-> r.line]
    /\ UNCHANGED call

\* model(x, noise_labels, class_labels, augment_labels) on the instance
\* that __init__ left behind
Forward ==
    /\ init.pc # "new"
    /\ \E xc \in ImageChannels(Get(args)), n \in NoiseInputs,
          c \in LabelInputs, g \in AugmentInputs :
          \E r \in IF LabelStepApplies(self, c) /\ LabelDropoutActive(self)
                   THEN RndInputs ELSE {<<>>} :
              call' = forward(self, xc, n, c, g, r)
    /\ UNCHANGED <<args, self, init>>

\* Module.train()
Train ==
    /\ init.pc # "new"
    /\ ~self.training
    /\ self' = [self EXCEPT !.training = TRUE]
    /\ UNCHANGED <<args, init, call>>

\* Module.eval()
Eval ==
    /\ init.pc # "new"
    /\ self.training
    /\ self' = [self EXCEPT !.training = FALSE]
    /\ UNCHANGED <<args, init, call>>

Next == Construct \/ Forward \/ Train \/ Eval

Spec == Init /\ [][Next]_vars

(* ------------------------------ claims -------------------------------- *)
Constructed == init.pc # "new"
Args == Get(args)
\* the instance as it was when the recorded call ran
SelfAtCall == [self EXCEPT !.training = call.training]
MappingLayers == {"map_noise", "map_layer0", "map_layer1"}

\* C1 (as claimed): with pool = "spatial", construction completes without
\* raising, and a forward call with a correctly shaped image and class
\* labels completes without raising and returns the shape
\* (batch_size, out_channels).
C1_ConstructThenForward ==
    (Constructed /\ Args.pool = "spatial") =>
        /\ init.pc = "returned"
        /\ (call.made /\ call.x_channels = Args.in_channels
                /\ ~IsNone(call.class_labels)) =>
               /\ call.raised = ""
               /\ call.out_shape = <<BatchSize, Args.out_channels>>

\* C2 (as claimed): when construction fails on the pooling mode, no mapping
\* layer, no encoder stage and no pooling-head layer has been created.
C2_FailsBeforeAnyLayer ==
    init.raised = "NotImplementedError" =>
        /\ self.attrs \cap MappingLayers = {}
        /\ IsNone(self.map_augment) /\ IsNone(self.map_label)
        /\ self.enc = <<>>
        /\ "out" \notin self.attrs /\ self.out = <<>>

\* C2 (amended): construction with a pooling mode other than "spatial"
\* raises NotImplementedError before any pooling-head layer (and the
\* pooling-head table itself) is created, but after the mapping layers and
\* the encoder stages of the configuration have been created.
C2_FailsBeforePoolingHead ==
    (Constructed /\ Args.pool # "spatial") =>
        /\ init.raised = "NotImplementedError"
        /\ "out" \notin self.attrs /\ self.out = <<>>
        /\ MappingLayers \subseteq self.attrs
        /\ IsNone(self.map_augment) <=> Args.augment_dim = 0
        /\ IsNone(self.map_label) <=> Args.label_dim = 0
        /\ "enc" \in self.attrs
        /\ Args.channel_mult # <<>> => self.enc # <<>>

C2_Witness ==
    /\ init.raised = "NotImplementedError"
    /\ Len(self.enc) > 1
    /\ ~IsNone(self.map_label)

\* C3 (as claimed): in the encoder stage table after construction, in
\* iteration order, the output channel count of every stage equals the
\* input channel count of the stage that follows it.
C3_ChannelsChain ==
    Constructed =>
        \A i \in 1..(Len(self.enc) - 1) :
            self.enc[i].module.out_channels
                = self.enc[i + 1].module.in_channels

\* C4: in training mode with a label projection and label_dropout = 1.0,
\* every forward call multiplies every sample's class labels by zero, and
\* the label embedding added is zero for every sample.
C4_FullLabelDropout ==
    (call.made /\ call.training /\ ~IsNone(self.map_label)
        /\ self.label_dropout = 10 /\ ~IsNone(call.class_labels)) =>
        /\ call.label_step = "applied"
        /\ \A i \in Samples :
              /\ Get(call.mask)[i] = 0
              /\ Get(call.tmp)[i] = 0
              /\ Get(call.label_emb)[i] = 0

C4_Witness ==
    /\ call.made /\ call.training /\ self.label_dropout = 10
    /\ call.label_step = "applied"
    /\ \A i \in Samples : Get(call.class_labels)[i] = 1 /\ call.rnd[i] = 9

\* C5: with label_dim = 0 no label projection is created, forward skips
\* the label step, and the same call with any other class-label argument
\* gives the same result.
C5_LabelsIgnoredWithoutLabelDim ==
    (call.made /\ Args.label_dim = 0) =>
        /\ IsNone(self.map_label)
        /\ call.label_step = "skipped"
        /\ \A c \in LabelInputs, r \in RndInputs :
              [forward(SelfAtCall, call.x_channels, call.noise_labels, c,
                       call.augment_labels, r)
                  EXCEPT !.class_labels = call.class_labels] = call

C5_Witness ==
    /\ call.made /\ Args.label_dim = 0 /\ call.training
    /\ call.class_labels = Some([i \in Samples |-> 1])
    /\ call.activated

\* C6: with augment_dim = 0 no augmentation projection is created, forward
\* skips the augmentation step, and the same call with any other
\* augment_labels argument (absent or any value) gives the same result.
C6_AugmentIgnoredWithoutAugmentDim ==
    (call.made /\ Args.augment_dim = 0) =>
        /\ IsNone(self.map_augment)
        /\ call.augment_step = "skipped"
        /\ \A g \in AugmentInputs :
              [forward(SelfAtCall, call.x_channels, call.noise_labels,
                       call.class_labels, g, call.rnd)
                  EXCEPT !.augment_labels = call.augment_labels] = call

C6_Witness ==
    /\ call.made /\ Args.augment_dim = 0
    /\ call.augment_labels = Some([i \in Samples |-> i])
    /\ call.activated

\* C7: in evaluation mode forward draws no random numbers and applies no
\* label dropout, so the same call gives the same result whatever the
\* random source would return, for every label_dropout.
C7_EvalDeterministic ==
    (call.made /\ ~call.training) =>
        /\ IsNone(call.mask)
        /\ call.rnd = <<>>
        /\ ~IsNone(call.tmp) => call.tmp = call.class_labels
        /\ \A r \in RndInputs :
              forward(SelfAtCall, call.x_channels, call.noise_labels,
                      call.class_labels, call.augment_labels, r) = call

C7_Witness ==
    /\ call.made /\ ~call.training
    /\ self.label_dropout = 10
    /\ call.label_step = "applied"
    /\ call.tmp = Some([i \in Samples |-> 1])

\* C8 (as claimed): when a label projection exists and no class labels are
\* supplied, forward skips the label step, applies the final activation
\* and completes without raising.
C8_LabelsOptional ==
    (call.made /\ ~IsNone(self.map_label) /\ IsNone(call.class_labels)) =>
        /\ call.label_step = "skipped"
        /\ call.activated
        /\ call.raised = ""

\* C8 (amended): the label step is performed exactly when a label
\* projection exists, whether or not class labels are supplied; when a
\* projection exists and no class labels are supplied, forward raises in
\* the label step, before the final activation.
C8_LabelStepNeedsLabels ==
    call.made =>
        /\ call.label_step = "skipped" <=> IsNone(self.map_label)
        /\ (~IsNone(self.map_label) /\ IsNone(call.class_labels)) =>
               /\ call.label_step = "raised"
               /\ ~call.activated
               /\ call.raised # "" /\ call.line \in {222, 223}
        /\ (~IsNone(self.map_label) /\ ~IsNone(call.class_labels)) =>
               /\ call.label_step = "applied"
               /\ call.activated

C8_Witness ==
    /\ call.made /\ ~IsNone(self.map_label) /\ IsNone(call.class_labels)
    /\ call.label_step = "raised"

\* the stage the claim C9 places at position j of level l (both from 0)
C9_StageAsClaimed(a, e, l, j) ==
    LET res == Shr(a.img_resolution, l)
        m == e.module
    IN  IF j = 0 /\ l = 0
        THEN /\ e.key = ConvKey(res)
             /\ m.type = "Conv2d"
             /\ m.in_channels = a.in_channels
             /\ m.out_channels = a.model_channels * a.channel_mult[1]
        ELSE IF j = 0
        THEN /\ e.key = DownKey(res)
             /\ m.type = "UNetBlock" /\ m.down
             /\ m.in_channels = m.out_channels
        ELSE /\ e.key = BlockKey(res, j - 1)
             /\ m.type = "UNetBlock" /\ ~m.down
             /\ m.out_channels = a.model_channels * a.channel_mult[l + 1]

\* C9 (as claimed): the stage table lists, level by level, one entry stage
\* (the convolution at level 0, a downsampling block later) followed by
\* exactly num_blocks residual blocks of model_channels * channel_mult[l]
\* output channels, and forward runs the stages in this order.
C9_StageListing ==
    Constructed =>
        /\ Len(self.enc) = Len(Args.channel_mult) * (Args.num_blocks + 1)
        /\ \A l \in 0..(Len(Args.channel_mult) - 1), j \in 0..Args.num_blocks :
              LET pos == l * (Args.num_blocks + 1) + j + 1
              IN  pos <= Len(self.enc) =>
                      C9_StageAsClaimed(Args, self.enc[pos], l, j)
        /\ call.made =>
              /\ Len(call.ran) <= Len(self.enc)
              /\ call.ran = SubSeq(Keys(self.enc), 1, Len(call.ran))

\* C10 (as claimed): no insertion overwrites an earlier stage, so the
\* table ends with len(channel_mult) * (num_blocks + 1) stages.
C10_StageCount ==
    Constructed =>
        Len(self.enc) = Len(Args.channel_mult) * (Args.num_blocks + 1)
====
